---- MODULE Spec2Model ----
(***************************************************************************)
(* Coffee-shop finder: the three Home components of the repository         *)
(*   "page"   src/app/page.tsx            (button, metre-based distance)   *)
(*   "auto"   src/unnamed/part_000:1-111  (locates on mount)               *)
(*   "button" src/unnamed/part_000:113-238 (button + isLocationRequested)  *)
(* modelled as one state machine: React state, the geolocation requests    *)
(* and fetches in flight, and the distance / ranking computation.          *)
(*                                                                         *)
(* Numbers: a JS number x is held as the integer x * Scale (fixed point,   *)
(* four decimals).  Angles are in radians, distances in kilometres.        *)
(* Coordinates are whole degrees.                                          *)
(***************************************************************************)
EXTENDS Integers, Sequences, FiniteSets, TLC

(* ---------------------------- bounds ----------------------------------- *)
\* longest response (number of elements) the points-of-interest source sends
MaxElems == 6
\* geolocation requests the user starts in one run
MaxRequests == 2
\* longest response in which malformed nodes occur, and longest response
\* in a run with several location requests
MaxShort == 2

(* ------------------------- fixed-point numbers ------------------------- *)
Scale == 10^4

Abs(x) == IF x < 0 THEN -x ELSE x
Sgn(x) == IF x < 0 THEN -1 ELSE 1

\* n / d rounded to nearest, sign-symmetric (d > 0)
RDiv(n, d) == Sgn(n) * ((2 * Abs(n) + d) \div (2 * d))

\* product and quotient of two fixed-point numbers
FMul(x, y) == RDiv(x * y, Scale)
FDiv(x, y) == RDiv(x * Scale, y)

\* Math.PI
PI == 31416

\* deg * Math.PI / 180
toRad(deg) == RDiv(deg * PI, 180)

\* Math.sin: reduction to [-PI/2, PI/2], then the Taylor series to x^9 (Horner form)
RECURSIVE sin(_)
sin(x) ==
    IF x < 0 THEN -sin(-x)
    ELSE IF x > PI \div 2 THEN sin(PI - x)
    ELSE LET x2 == FMul(x, x)
             h9 == Scale - FMul(x2, Scale) \div 72
             h7 == Scale - FMul(x2, h9) \div 42
             h5 == Scale - FMul(x2, h7) \div 20
             h3 == Scale - FMul(x2, h5) \div 6
         IN  FMul(x, h3)

\* Math.cos
cos(x) == sin(PI \div 2 - x)

\* integer square root by bisection: the r in lo..hi with r*r <= n < (r+1)^2
RECURSIVE ISqrt(_, _, _)
ISqrt(n, lo, hi) ==
    IF lo >= hi THEN lo
    ELSE LET mid == (lo + hi + 1) \div 2
         IN  IF mid * mid <= n THEN ISqrt(n, mid, hi) ELSE ISqrt(n, lo, mid - 1)

\* Math.sqrt, for the arguments 0 <= v <= 2 the distance formula produces
sqrt(v) == ISqrt(v * Scale, 0, 2 * Scale)

\* arctangent of t in [0, 1]: one half-angle step, then the series to t^9
atan(t) ==
    LET h  == FDiv(t, Scale + sqrt(Scale + FMul(t, t)))
        h2 == FMul(h, h)
        h3 == FMul(h, h2)
        h5 == FMul(h3, h2)
        h7 == FMul(h5, h2)
        h9 == FMul(h7, h2)
    IN  2 * (h - h3 \div 3 + h5 \div 5 - h7 \div 7 + h9 \div 9)

\* Math.atan2(y, x) for y >= 0, x >= 0
atan2(y, x) ==
    IF y = 0 THEN 0
    ELSE IF y <= x THEN atan(FDiv(y, x))
    ELSE PI \div 2 - atan(FDiv(x, y))

(* --------------------------- distance ---------------------------------- *)
\* Earth's radius: metres in page.tsx, kilometres in part_000
R_page == 6371000
R == 6371

\* Math.round(num / den) for num >= 0: nearest integer, halves upwards
round(num, den) == (2 * num + den) \div (2 * den)

\* the central angle with the latitude difference taken as a sum
centralAngleSum(lat1, lon1, lat2, lon2) ==
    LET phi1 == toRad(lat1)
        phi2 == toRad(lat2)
        dphi == toRad(lat2 + lat1)
        dlam == toRad(lon2 - lon1)
        a    == FMul(sin(dphi \div 2), sin(dphi \div 2))
                + FMul(FMul(cos(phi1), cos(phi2)),
                       FMul(sin(dlam \div 2), sin(dlam \div 2)))
    IN  2 * atan2(sqrt(a), sqrt(Scale - a))

\* the haversine central angle c, the part the implementations share
centralAngle(lat1, lon1, lat2, lon2) ==
    LET phi1 == toRad(lat1)
        phi2 == toRad(lat2)
        dphi == toRad(lat2 - lat1)
        dlam == toRad(lon2 - lon1)
        a    == FMul(sin(dphi \div 2), sin(dphi \div 2))
                + FMul(FMul(cos(phi1), cos(phi2)),
                       FMul(sin(dlam \div 2), sin(dlam \div 2)))
    IN  2 * atan2(sqrt(a), sqrt(Scale - a))

\* page.tsx: Math.round((R * c) / 1000 * 100) / 100, kilometres to two decimals.
\* R * c / 1000 * 100 is (R / 1000) * c / (Scale / 100) on the fixed-point c.
calculateDistancePage(lat1, lon1, lat2, lon2) ==
    LET c == centralAngle(lat1, lon1, lat2, lon2)
    IN  round((R_page \div 1000) * c, Scale \div 100) * (Scale \div 100)

\* part_000 (both components): R * c, kilometres
calculateDistanceKm(lat1, lon1, lat2, lon2) ==
    LET c == centralAngle(lat1, lon1, lat2, lon2)
    IN  R * c

Variants == {"page", "auto", "button"}

calculateDistance(v, lat1, lon1, lat2, lon2) ==
    IF v = "page" THEN calculateDistancePage(lat1, lon1, lat2, lon2)
    ELSE calculateDistanceKm(lat1, lon1, lat2, lon2)

(* ----------------------- upstream data --------------------------------- *)
Undefined == "undefined"

\* positions the location provider may report
Locations == { [lat |-> 0, lon |-> 0], [lat |-> 0, lon |-> 40] }

\* Overpass nodes: two named cafes, a cafe whose tags hold no name, and a
\* node without a tags object (hasTags = FALSE)
NamedNode   == [lat |-> 0, lon |-> 10, hasTags |-> TRUE,  name |-> "Cafe"]
OtherNode   == [lat |-> 0, lon |-> -10, hasTags |-> TRUE, name |-> "Bar"]
UnnamedNode == [lat |-> 0, lon |-> 30, hasTags |-> TRUE,  name |-> Undefined]
BareNode    == [lat |-> 0, lon |-> 10, hasTags |-> FALSE, name |-> Undefined]

\* element i of a response carries id i
Elements(kinds) ==
    [i \in 1..Len(kinds) |->
        [id |-> i, lat |-> kinds[i].lat, lon |-> kinds[i].lon,
         hasTags |-> kinds[i].hasTags, name |-> kinds[i].name]]

SeqsUpTo(S, n) == UNION { [1..m -> S] : m \in 0..n }

\* data.elements of the responses: every list of well-formed nodes up to
\* MaxElems, and the short lists in which nodes without tags occur too
LongLists  == { Elements(ks) : ks \in SeqsUpTo({NamedNode, OtherNode, UnnamedNode}, MaxElems) }
ShortLists == { Elements(ks) : ks \in SeqsUpTo({NamedNode, UnnamedNode, BareNode}, MaxShort) }

\* what a fetch can settle with: a rejection, or a response with its ok
\* flag and a body that is no JSON ("text"), JSON without an elements
\* array ("object"), or JSON with one ("elements")
Rejected == [settled |-> "rejected", ok |-> FALSE, body |-> "text", elements |-> << >>]
Resolved(o, b, es) == [settled |-> "resolved", ok |-> o, body |-> b, elements |-> es]

\* the responses to a query; the long lists are sent (long = TRUE) in the
\* runs with a single location request
Responses(long) ==
    {Rejected}
    \cup { Resolved(o, b, << >>) : o \in BOOLEAN, b \in {"text", "object"} }
    \cup { Resolved(TRUE, "elements", es) : es \in ShortLists }
    \cup { Resolved(FALSE, "elements", es) : es \in { l \in ShortLists : Len(l) <= 1 } }
    \cup { Resolved(TRUE, "elements", es) : es \in IF long THEN LongLists ELSE {} }

\* what the history keeps of a response
digest(resp) ==
    [settled |-> resp.settled, ok |-> resp.ok, body |-> resp.body,
     empty   |-> resp.elements = << >>,
     tagless |-> \E i \in 1..Len(resp.elements) : ~resp.elements[i].hasTags]

(* ----------------------- response processing --------------------------- *)
\* slice(0, 5)
K == 5

Min(a, b) == IF a < b THEN a ELSE b

\* the comparator with its operands exchanged
compareReversed(a, b) == b.distance - a.distance

\* the comparator (a, b) => a.distance - b.distance
compare(a, b) == a.distance - b.distance

\* an insertion that puts an element before those it ties with
RECURSIVE insertUnstable(_, _)
insertUnstable(s, x) ==
    IF s = << >> THEN << x >>
    ELSE IF compare(s[Len(s)], x) < 0 THEN Append(s, x)
    ELSE Append(insertUnstable(SubSeq(s, 1, Len(s) - 1), x), s[Len(s)])

\* Array.prototype.sort with that comparator: a stable sort (ECMAScript 2019),
\* here by insertion, each element going after those that do not compare greater
RECURSIVE insert(_, _)
insert(s, x) ==
    IF s = << >> THEN << x >>
    ELSE IF compare(s[Len(s)], x) <= 0 THEN Append(s, x)
    ELSE Append(insert(SubSeq(s, 1, Len(s) - 1), x), s[Len(s)])

RECURSIVE sort(_)
sort(s) ==
    IF s = << >> THEN << >>
    ELSE insert(sort(SubSeq(s, 1, Len(s) - 1)), s[Len(s)])

\* a slice that ignores its end
sliceAll(s, from, to) == SubSeq(s, from + 1, Len(s))

\* Array.prototype.slice(from, to)
slice(s, from, to) == SubSeq(s, from + 1, Min(to, Len(s)))

\* the default label of the variant
defaultName(v) == IF v = "page" THEN "Unnamed Coffee Shop" ELSE "Unknown"

\* the values calculateDistance returns on the positions of the model,
\* evaluated once
Points == Locations \cup { [lat |-> n.lat, lon |-> n.lon] : n \in {NamedNode, OtherNode, UnnamedNode, BareNode} }
distances ==
    [v \in Variants, a \in Points, b \in Points |->
        calculateDistance(v, a.lat, a.lon, b.lat, b.lon)]

\* the map callback: node.tags.name || default, and the distance from loc
toShop(v, loc, node) ==
    [id       |-> node.id,
     name     |-> IF node.name = Undefined THEN defaultName(v) ELSE node.name,
     lat      |-> node.lat,
     lon      |-> node.lon,
     distance |-> distances[v, loc, [lat |-> node.lat, lon |-> node.lon]]]

\* a try block that also throws on an empty elements array
throwsOnEmpty(v, resp) ==
    \/ resp.settled = "rejected"
    \/ v # "page" /\ ~resp.ok
    \/ resp.body = "text"
    \/ resp.body = "object"
    \/ resp.elements = << >>
    \/ \E i \in 1..Len(resp.elements) : ~resp.elements[i].hasTags

\* does the try block throw on this response
throws(v, resp) ==
    \/ resp.settled = "rejected"                       \* await fetch rejects
    \/ v # "page" /\ ~resp.ok                          \* if (!response.ok) throw
    \/ resp.body = "text"                              \* response.json() rejects
    \/ resp.body = "object"                            \* data.elements is undefined
    \/ \E i \in 1..Len(resp.elements) : ~resp.elements[i].hasTags   \* node.tags.name

\* map, sort, slice
rank(v, loc, elements) ==
    slice(sort([i \in 1..Len(elements) |-> toShop(v, loc, elements[i])]), 0, K)

(* ------------------------------ state ---------------------------------- *)
VARIABLES
    variant,              \* which Home component is running
    geoSupported,         \* navigator.geolocation is present
    mounted,              \* the mount effect has run
    location,             \* useState: null or << position >>
    coffeeShops,          \* useState: the displayed list
    loading,              \* useState
    error,                \* useState: null or a message
    isLocationRequested,  \* useState, "button" only
    geoPending,           \* getCurrentPosition calls whose callback is due
    fetches,              \* fetchCoffeeShops runs awaiting their response
    started,              \* history: geolocation requests started
    acquired,             \* history: locations acquired
    settled,              \* history: fetches settled
    shown,                \* history: query, location and elements coffeeShops came from
    lastEvent,            \* history: the last step taken
    lastFailure,          \* history: the last failure that happened
    lastResponse,         \* history: digest of the response settled last
    probe                 \* the coordinate and result of a distance evaluation

vars == << variant, geoSupported, mounted, location, coffeeShops, loading, error,
           isLocationRequested, geoPending, fetches, started, acquired, settled,
           shown, lastEvent, lastFailure, lastResponse, probe >>

null == << >>
NoError == "null"

unsupportedMessage(v) ==
    IF v = "page" THEN "Geolocation is not supported by your browser."
    ELSE "Geolocation is not supported by your browser"

positionErrorMessage(v) ==
    IF v = "page" THEN "Unable to retrieve location. Please allow location access."
    ELSE "Unable to retrieve your location"

\* a catch block that reuses the location message
fetchFailedAsPosition(v) == positionErrorMessage(v)

fetchFailedMessage(v) ==
    IF v = "page" THEN "Failed to fetch coffee shops."
    ELSE "Failed to fetch coffee shops"

NoProbe == [lat |-> 0, lon |-> 0, distance |-> -1]

Init ==
    /\ variant \in Variants
    /\ geoSupported \in BOOLEAN
    /\ mounted = (variant # "auto")
    /\ location = null
    /\ coffeeShops = << >>
    /\ loading = (variant = "auto")
    /\ error = NoError
    /\ isLocationRequested = FALSE
    /\ geoPending = 0
    /\ fetches = {}
    /\ started = 0
    /\ acquired = 0
    /\ settled = 0
    /\ shown = [q |-> 0, loc |-> null, elements |-> << >>]
    /\ lastEvent = "init"
    /\ lastFailure = "none"
    /\ lastResponse = digest(Rejected)
    /\ probe = NoProbe

(* ----------------------------- actions --------------------------------- *)
\* page.tsx: the button (rendered while location is null) calls getUserLocation
getUserLocation ==
    /\ variant = "page"
    /\ location = null
    /\ started < MaxRequests
    /\ IF geoSupported
       THEN /\ loading' = TRUE
            /\ geoPending' = geoPending + 1
            /\ started' = started + 1
            /\ lastEvent' = "requested"
            /\ UNCHANGED << error, lastFailure >>
       ELSE /\ error' = unsupportedMessage(variant)
            /\ lastEvent' = "unsupported"
            /\ lastFailure' = "unsupported"
            /\ UNCHANGED << loading, geoPending, started >>
    /\ UNCHANGED << variant, geoSupported, mounted, location, coffeeShops,
                    isLocationRequested, fetches, acquired, settled, shown,
                    lastResponse, probe >>

\* part_000:19-36: the mount effect of the component that locates on its own
mount ==
    /\ variant = "auto"
    /\ ~mounted
    /\ mounted' = TRUE
    /\ IF ~geoSupported
       THEN /\ error' = unsupportedMessage(variant)
            /\ loading' = FALSE
            /\ lastEvent' = "unsupported"
            /\ lastFailure' = "unsupported"
            /\ UNCHANGED << geoPending, started >>
       ELSE /\ geoPending' = geoPending + 1
            /\ started' = started + 1
            /\ lastEvent' = "requested"
            /\ UNCHANGED << error, loading, lastFailure >>
    /\ UNCHANGED << variant, geoSupported, location, coffeeShops,
                    isLocationRequested, fetches, acquired, settled, shown,
                    lastResponse, probe >>

\* part_000:132-155: the button (rendered while isLocationRequested is false)
\* calls requestLocation; the effect on isLocationRequested starts the request
requestLocation ==
    /\ variant = "button"
    /\ ~isLocationRequested
    /\ started < MaxRequests
    /\ IF ~geoSupported
       THEN /\ error' = unsupportedMessage(variant)
            /\ lastEvent' = "unsupported"
            /\ lastFailure' = "unsupported"
            /\ UNCHANGED << isLocationRequested, loading, geoPending, started >>
       ELSE /\ isLocationRequested' = TRUE
            /\ loading' = TRUE
            /\ geoPending' = geoPending + 1
            /\ started' = started + 1
            /\ lastEvent' = "requested"
            /\ UNCHANGED << error, lastFailure >>
    /\ UNCHANGED << variant, geoSupported, mounted, location, coffeeShops,
                    fetches, acquired, settled, shown, lastResponse, probe >>

\* the success callback of getCurrentPosition: setLocation with a new object,
\* upon which the effect on [location] runs fetchCoffeeShops up to its await
\* (page.tsx sets loading there, part_000 does not)
positionSuccess(loc) ==
    /\ geoPending > 0
    /\ geoPending' = geoPending - 1
    /\ location' = << loc >>
    /\ acquired' = acquired + 1
    /\ fetches' = fetches \cup { [q |-> acquired + 1, loc |-> loc] }
    /\ loading' = IF variant = "page" THEN TRUE ELSE loading
    /\ lastEvent' = "located"
    /\ UNCHANGED << variant, geoSupported, mounted, coffeeShops, error,
                    isLocationRequested, started, settled, shown, lastFailure,
                    lastResponse, probe >>

\* an error callback that leaves loading as it is
positionErrorKeepsLoading ==
    /\ geoPending > 0
    /\ geoPending' = geoPending - 1
    /\ error' = positionErrorMessage(variant)
    /\ isLocationRequested' = IF variant = "button" THEN FALSE ELSE isLocationRequested
    /\ lastEvent' = "positionError"
    /\ lastFailure' = "position"
    /\ UNCHANGED << variant, geoSupported, mounted, location, coffeeShops, loading,
                    fetches, started, acquired, settled, shown, lastResponse, probe >>

\* the error callback of getCurrentPosition
positionError ==
    /\ geoPending > 0
    /\ geoPending' = geoPending - 1
    /\ error' = positionErrorMessage(variant)
    /\ loading' = FALSE
    /\ isLocationRequested' = IF variant = "button" THEN FALSE ELSE isLocationRequested
    /\ lastEvent' = "positionError"
    /\ lastFailure' = "position"
    /\ UNCHANGED << variant, geoSupported, mounted, location, coffeeShops,
                    fetches, started, acquired, settled, shown, lastResponse, probe >>

\* a catch block that issues the request of run f again
afterCatchRetry(f) == fetches

\* the requests in flight once the catch block of run f is done: no retry
afterCatch(f) == fetches \ {f}

\* fetchCoffeeShops resumes: the fetch of run f settles with resp, and the rest
\* of the try block, or the catch block, runs
fetchSettles(f, resp) ==
    /\ f \in fetches
    /\ settled' = settled + 1
    /\ lastResponse' = digest(resp)
    /\ IF throws(variant, resp)
       THEN /\ error' = fetchFailedMessage(variant)
            /\ loading' = FALSE
            /\ fetches' = afterCatch(f)
            /\ lastEvent' = "fetchFailed"
            /\ lastFailure' = "fetch"
            /\ UNCHANGED << coffeeShops, shown >>
       ELSE /\ coffeeShops' = rank(variant, f.loc, resp.elements)
            /\ loading' = FALSE
            /\ fetches' = fetches \ {f}
            /\ shown' = [q |-> f.q, loc |-> << f.loc >>, elements |-> resp.elements]
            /\ lastEvent' = "fetched"
            /\ UNCHANGED << error, lastFailure >>
    /\ UNCHANGED << variant, geoSupported, mounted, location,
                    isLocationRequested, geoPending, started, acquired, probe >>

Next ==
    \/ getUserLocation
    \/ mount
    \/ requestLocation
    \/ \E loc \in Locations : positionSuccess(loc)
    \/ positionError
    \/ \E f \in fetches : \E resp \in Responses(started = 1) : fetchSettles(f, resp)

Spec == Init /\ [][Next]_vars

(* ------------------- distance of a point to itself --------------------- *)
\* the coordinates probed: every fifth degree of latitude and longitude
Latitudes  == { x \in -90..90 : x % 5 = 0 }
Longitudes == { x \in -180..180 : x % 5 = 0 }

InitDist ==
    /\ Init
    /\ geoSupported

\* calculateDistance(a.lat, a.lon, a.lat, a.lon) in the variant's implementation
measure(lat, lon) ==
    /\ probe.distance = -1
    /\ probe' = [lat |-> lat, lon |-> lon,
                 distance |-> calculateDistance(variant, lat, lon, lat, lon)]
    /\ UNCHANGED << variant, geoSupported, mounted, location, coffeeShops, loading,
                    error, isLocationRequested, geoPending, fetches, started,
                    acquired, settled, shown, lastEvent, lastFailure, lastResponse >>

NextDist == \E lat \in Latitudes, lon \in Longitudes : measure(lat, lon)

SpecDist == InitDist /\ [][NextDist]_vars

(* ------------------------------ claims --------------------------------- *)
\* the distance the variant computes from the location of the shown query
shownDistance(e) == toShop(variant, shown.loc[1], e).distance

shownIds == { coffeeShops[i].id : i \in 1..Len(coffeeShops) }

\* the elements of the shown response that are not displayed
omitted == { i \in 1..Len(shown.elements) : shown.elements[i].id \notin shownIds }

\* C1: the displayed list has at most 5 entries and never more entries than
\* the response it was computed from has elements
C1_AtMostFive ==
    /\ Len(coffeeShops) <= 5
    /\ Len(coffeeShops) <= Len(shown.elements)

W_C1 == Len(shown.elements) > 5 /\ Len(coffeeShops) = 5

\* C2: the displayed list is ascending by distance, and no element left out
\* of it is strictly closer than a displayed one
C2_SortedNearest ==
    /\ \A i \in 1..(Len(coffeeShops) - 1) :
          coffeeShops[i].distance <= coffeeShops[i + 1].distance
    /\ \A i \in omitted : \A j \in 1..Len(coffeeShops) :
          ~(shownDistance(shown.elements[i]) < coffeeShops[j].distance)

\* a response longer than the cut, not in order, shown with two distances
W_C2 ==
    /\ omitted # {}
    /\ \E i, j \in 1..Len(shown.elements) :
          i < j /\ shownDistance(shown.elements[i]) > shownDistance(shown.elements[j])
    /\ coffeeShops[1].distance < coffeeShops[Len(coffeeShops)].distance

\* C3: elements of equal distance keep the order of the response (ids are
\* the positions in the response), also across the cut after the fifth entry
C3_Stable ==
    /\ \A i, j \in 1..Len(coffeeShops) :
          (i < j /\ coffeeShops[i].distance = coffeeShops[j].distance)
              => coffeeShops[i].id < coffeeShops[j].id
    /\ \A i \in omitted : \A j \in 1..Len(coffeeShops) :
          shownDistance(shown.elements[i]) = coffeeShops[j].distance
              => coffeeShops[j].id < shown.elements[i].id

\* a tie between different nodes moved next to each other by the sort, and
\* a tie that straddles the cut
W_C3 ==
    /\ \E i \in 1..(Len(coffeeShops) - 1) :
          /\ coffeeShops[i].distance = coffeeShops[i + 1].distance
          /\ coffeeShops[i].lon # coffeeShops[i + 1].lon
          /\ coffeeShops[i].id + 1 < coffeeShops[i + 1].id
    /\ \E i \in omitted :
          shownDistance(shown.elements[i]) = coffeeShops[Len(coffeeShops)].distance

\* a response of a fetch that succeeded: resolved, ok, JSON with elements
wellFetched(d) == d.settled = "resolved" /\ d.ok /\ d.body = "elements"

\* C4: a successful fetch with zero elements leaves coffeeShops empty and
\* loading false and does not touch error
C4_EmptyIsNormal ==
    [][(settled' = settled + 1 /\ wellFetched(lastResponse') /\ lastResponse'.empty)
          => /\ coffeeShops' = << >>
             /\ loading' = FALSE
             /\ error' = error
             /\ lastEvent' = "fetched"]_vars

W_C4 ==
    /\ settled > 0
    /\ wellFetched(lastResponse) /\ lastResponse.empty
    /\ lastEvent = "fetched"
    /\ coffeeShops = << >> /\ ~loading /\ error = NoError

messageOf(failure) ==
    CASE failure = "none"        -> NoError
      [] failure = "unsupported" -> unsupportedMessage(variant)
      [] failure = "position"    -> positionErrorMessage(variant)
      [] failure = "fetch"       -> fetchFailedMessage(variant)

\* C5: the fetch-failure message differs from the location messages, and
\* the error shown is the message of the failure that happened last
C5_DistinctErrors ==
    /\ fetchFailedMessage(variant)
          \notin {positionErrorMessage(variant), unsupportedMessage(variant), NoError}
    /\ error = messageOf(lastFailure)

\* a fetch was rejected, and a location request failed after it
W_C5 ==
    /\ settled > 0 /\ lastResponse.settled = "rejected"
    /\ lastFailure = "position"
    /\ error = positionErrorMessage(variant)

\* C6: one request per acquired location, settled or still in flight (none
\* is issued again), and a failed fetch shows the generic failure message
C6_NoRetry ==
    /\ Cardinality(fetches) + settled = acquired
    /\ lastEvent = "fetchFailed" => error = fetchFailedMessage(variant)

W_C6 == lastEvent = "fetchFailed" /\ fetches = {} /\ geoPending = 0

\* C7 as stated: no fetch for a newer location is in flight while coffeeShops
\* holds the results of an earlier query
C7_Discarded ==
    \A f \in fetches : ~(coffeeShops # << >> /\ shown.q < f.q)

\* C8 as stated: processing a successfully fetched response never fails
C8_NeverThrows ==
    [][(settled' = settled + 1 /\ wellFetched(lastResponse'))
          => (lastEvent' = "fetched" /\ error' = error)]_vars

\* C9: calculateDistance of a coordinate to itself is exactly 0
C9_SelfDistanceZero == probe.distance # -1 => probe.distance = 0

W_C9 == probe.distance = 0 /\ probe.lat = -90 /\ probe.lon = 180 /\ variant = "page"

\* C10 as stated: the response to an earlier fetch never replaces the
\* results of a later one by others
C10_LatestWins == [][~(shown'.q < shown.q /\ coffeeShops' # coffeeShops)]_vars

\* C11 as stated: an error message and a result list are never shown together
C11_ErrorOrResults == coffeeShops # << >> => error = NoError

\* no geolocation request and no fetch is outstanding
quiet == geoPending = 0 /\ fetches = {}

\* C12: once the component has started and no request is outstanding,
\* loading is false, whatever the outcome of the requests was
C12_LoadingEnds == (mounted /\ quiet) => ~loading

\* the last request of a run with a location failure and a later location
\* ended in a failure of response processing
W_C12 ==
    /\ quiet /\ ~loading
    /\ started > 1 /\ settled > 0
    /\ lastEvent = "fetchFailed"
    /\ wellFetched(lastResponse) /\ lastResponse.tagless

\* C13 as stated: while a geolocation request or a fetch is in flight,
\* loading is true
C13_LoadingCovers == ~quiet => loading

====
